---- MODULE Spec2Model ----
(***************************************************************************)
(* Model of suite_trading.domain.monetary.money.Money.                     *)
(*                                                                         *)
(* Money is an immutable value type: every operation is a pure function   *)
(* of its operands.  The state machine below holds one Money instance      *)
(* (self), applies one operation of the class per step to it and records   *)
(* the operands and the outcome of the last operation (last).              *)
(*                                                                         *)
(* Decimal numbers are modelled as Python's decimal module stores them:    *)
(* a sign, a coefficient given as its sequence of decimal digits (most     *)
(* significant first, as Decimal._int) and an exponent, with the two       *)
(* special values Infinity and NaN.  Arithmetic is done on the digit       *)
(* sequences, so the 30 digit limits MAX_VALUE / MIN_VALUE and the 28      *)
(* digit context precision keep the widths they have in the source.        *)
(* Text (str inputs, str(Decimal), Money.__str__, Money.from_str) is a     *)
(* sequence of one-character strings.                                      *)
(***************************************************************************)
EXTENDS Integers, Sequences, FiniteSets, TLC

(***************************************************************************)
(* Natural numbers as digit sequences (most significant digit first).      *)
(* The arithmetic packs the digits four by four into limbs, so that every  *)
(* intermediate value stays below 2^31.                                    *)
(***************************************************************************)

\* a function with domain 1..n as an explicit tuple, its elements evaluated once
Tuple(f) == f \o <<>>

Rep(d, n) == Tuple([i \in 1..n |-> d])

Max2(a, b) == IF a >= b THEN a ELSE b

Min2(a, b) == IF a <= b THEN a ELSE b

\* the digits without leading zeros; zero is <<0>>
Strip(ds) ==
    IF \A i \in 1..Len(ds) : ds[i] = 0 THEN <<0>>
    ELSE LET k == CHOOSE i \in 1..Len(ds) :
                      ds[i] # 0 /\ \A j \in 1..(i - 1) : ds[j] = 0
         IN  SubSeq(ds, k, Len(ds))

IsZeroNat(ds) == \A i \in 1..Len(ds) : ds[i] = 0

PadLeft(ds, n) == Rep(0, n - Len(ds)) \o ds

Base == 10 * 10 * 10 * 10

Pow10(k) == CASE k = 0 -> 1 [] k = 1 -> 10 [] k = 2 -> 100 [] OTHER -> 1000

NLimbs(n) == (n + 3) \div 4

\* the m limbs of a digit sequence of at most 4 * m digits
ToLimbs(ds, m) ==
    LET limbs(p) == Tuple([i \in 1..m |-> 1000 * p[4 * i - 3] + 100 * p[4 * i - 2]
                                          + 10 * p[4 * i - 1] + p[4 * i]])
    IN  limbs(PadLeft(ds, 4 * m))

FromLimbs(ls) ==
    Strip(Tuple([i \in 1..(4 * Len(ls)) |->
                    (ls[(i + 3) \div 4] \div Pow10(3 - ((i - 1) % 4))) % 10]))

\* -1, 0 or 1 as a < b, a = b or a > b (limb sequences of the same length)
LimbCmp(a, b) ==
    LET first(k) == IF a[k] < b[k] THEN -1 ELSE 1
    IN  IF a = b THEN 0
        ELSE first(CHOOSE i \in 1..Len(a) :
                       a[i] # b[i] /\ \A j \in 1..(i - 1) : a[j] = b[j])

\* a + b: there is a carry into limb i when a limb to its right overflows
\* and all the limbs between sum to Base - 1 (the first limbs are 0)
LimbAdd(a, b) ==
    LET n == Len(a)
        carry(i) == IF \E j \in (i + 1)..n :
                          /\ a[j] + b[j] >= Base
                          /\ \A k \in (i + 1)..(j - 1) : a[k] + b[k] = Base - 1
                    THEN 1 ELSE 0
    IN  Tuple([i \in 1..n |-> (a[i] + b[i] + carry(i)) % Base])

\* a - b for a >= b: there is a borrow from limb i when a limb to its right
\* is short and all the limbs between are equal
LimbSub(a, b) ==
    LET n == Len(a)
        borrow(i) == IF \E j \in (i + 1)..n :
                           /\ a[j] < b[j]
                           /\ \A k \in (i + 1)..(j - 1) : a[k] = b[k]
                     THEN 1 ELSE 0
    IN  Tuple([i \in 1..n |-> (a[i] - b[i] - borrow(i) + Base) % Base])

NatCmp(x, y) ==
    LET m == NLimbs(Max2(Len(x), Len(y)))
    IN  LimbCmp(ToLimbs(x, m), ToLimbs(y, m))

NatAdd(x, y) ==
    LET m == NLimbs(Max2(Len(x), Len(y))) + 1
    IN  FromLimbs(LimbAdd(ToLimbs(x, m), ToLimbs(y, m)))

\* x - y for x >= y
NatSub(x, y) ==
    LET m == NLimbs(Max2(Len(x), Len(y)))
    IN  FromLimbs(LimbSub(ToLimbs(x, m), ToLimbs(y, m)))

\* the sum of a[i] * b[j] over the limbs i of a and j of b whose weights
\* multiply to Base^k, from limb i of a on (limb Len(a) has weight 1)
RECURSIVE ConvSum(_, _, _, _)
ConvSum(a, b, k, i) ==
    LET j == Len(a) + Len(b) - k - i
    IN  IF i > Len(a) THEN 0
        ELSE IF j >= 1 /\ j <= Len(b) THEN a[i] * b[j] + ConvSum(a, b, k, i + 1)
        ELSE ConvSum(a, b, k, i + 1)

\* the limbs of a * b from weight Base^k up, carry c into weight k, put
\* before the limbs acc of the lower weights
RECURSIVE MulRec(_, _, _, _, _)
MulRec(a, b, k, c, acc) ==
    LET next(t) == MulRec(a, b, k + 1, t \div Base, <<t % Base>> \o acc)
    IN  IF k = Len(a) + Len(b) \/ acc # acc THEN acc
        ELSE next(ConvSum(a, b, k, 1) + c)

NatMul(x, y) ==
    FromLimbs(MulRec(ToLimbs(x, NLimbs(Len(x))), ToLimbs(y, NLimbs(Len(y))),
                     0, 0, <<>>))

NatMulDigit(x, d) == NatMul(x, <<d>>)

\* long division, digit by digit: the first i digits of x are divided, with
\* quotient digits q and remainder r (limbs); tab[j] holds the limbs of j * y
RECURSIVE DivRec(_, _, _, _, _)
DivRec(x, tab, i, q, r) ==
    LET m == Len(r)
        digit(r1, d) ==
            DivRec(x, tab, i + 1, Append(q, d),
                   IF d = 0 THEN r1 ELSE LimbSub(r1, tab[d]))
        shifted(r1) ==
            digit(r1, Cardinality({j \in 1..9 : LimbCmp(tab[j], r1) <= 0}))
    IN  IF i = Len(x) \/ q # q \/ r # r THEN << Strip(q), FromLimbs(r) >>
        ELSE shifted(Tuple([k \in 1..m |->
                               (r[k] % 1000) * 10
                               + (IF k < m THEN r[k + 1] \div 1000
                                  ELSE x[i + 1])]))

\* <<quotient, remainder>> of x by y, for y > 0
NatDivMod(x, y) ==
    LET m   == NLimbs(Len(y) + 1) + 1
        tab == Tuple([j \in 1..9 |-> ToLimbs(NatMulDigit(y, j), m)])
    IN  DivRec(x, tab, 0, <<>>, Rep(0, m))

\* x * 10^n
Shift(x, n) == Strip(x \o Rep(0, n))

(***************************************************************************)
(* Text: sequences of one-character strings                                *)
(***************************************************************************)

DigitChar == <<"0", "1", "2", "3", "4", "5", "6", "7", "8", "9">>

IsDigitChar(c) == \E d \in 0..9 : DigitChar[d + 1] = c

CharDigit(c) == CHOOSE d \in 0..9 : DigitChar[d + 1] = c

AllDigitChars(s) == \A i \in 1..Len(s) : IsDigitChar(s[i])

DigitsToText(ds) == Tuple([i \in 1..Len(ds) |-> DigitChar[ds[i] + 1]])

TextToDigits(s) == Tuple([i \in 1..Len(s) |-> CharDigit(s[i])])

\* the value of a short digit sequence as an integer (exponents only)
RECURSIVE DigitsToInt(_)
DigitsToInt(ds) ==
    IF Len(ds) = 0 THEN 0
    ELSE 10 * DigitsToInt(SubSeq(ds, 1, Len(ds) - 1)) + ds[Len(ds)]

RECURSIVE NatToDigits(_)
NatToDigits(n) ==
    IF n < 10 THEN <<n>> ELSE Append(NatToDigits(n \div 10), n % 10)

\* str(n) for an int n
IntToText(n) ==
    IF n < 0 THEN <<"-">> \o DigitsToText(NatToDigits(-n))
    ELSE DigitsToText(NatToDigits(n))

Upper(c) ==
    CASE c = "a" -> "A" [] c = "e" -> "E" [] c = "f" -> "F" [] c = "i" -> "I"
      [] c = "n" -> "N" [] c = "t" -> "T" [] c = "y" -> "Y"
      [] OTHER -> c

UpperText(s) == Tuple([i \in 1..Len(s) |-> Upper(s[i])])

\* the first index of character c in s, 0 when there is none
FirstIndex(s, c) ==
    IF \E i \in 1..Len(s) : s[i] = c
    THEN CHOOSE i \in 1..Len(s) : s[i] = c /\ \A j \in 1..(i - 1) : s[j] # c
    ELSE 0

\* str.strip(): leading and trailing blanks removed
RECURSIVE StripLeft(_)
StripLeft(s) ==
    IF Len(s) > 0 /\ s[1] = " " THEN StripLeft(Tail(s)) ELSE s

RECURSIVE StripRight(_)
StripRight(s) ==
    IF Len(s) > 0 /\ s[Len(s)] = " "
    THEN StripRight(SubSeq(s, 1, Len(s) - 1)) ELSE s

StripText(s) == StripRight(StripLeft(s))

\* str.split(): the maximal runs of non-blank characters
RECURSIVE SplitText(_)
SplitText(s) ==
    LET cut(t, k) ==
            IF Len(t) = 0 THEN <<>>
            ELSE IF k = 0 THEN <<t>>
            ELSE <<SubSeq(t, 1, k - 1)>> \o SplitText(SubSeq(t, k + 1, Len(t)))
        stripped(t) == cut(t, FirstIndex(t, " "))
    IN  stripped(StripLeft(s))

(***************************************************************************)
(* Decimal: the values of decimal.Decimal                                  *)
(*   kind "F": finite, (-1)^sign * int * 10^exp                            *)
(*   kind "I": infinity, kind "N": quiet NaN                               *)
(*   kind "E": no value, the operation raised decimal.InvalidOperation     *)
(***************************************************************************)

Dec(sign, int, exp) == [kind |-> "F", sign |-> sign, int |-> int, exp |-> exp]

DecInf(sign) == [kind |-> "I", sign |-> sign, int |-> <<0>>, exp |-> 0]

DecNaN(sign) == [kind |-> "N", sign |-> sign, int |-> <<>>, exp |-> 0]

InvalidOperation == [kind |-> "E", sign |-> 0, int |-> <<>>, exp |-> 0]

NoDecimal == [kind |-> "none", sign |-> 0, int |-> <<>>, exp |-> 0]

\* getcontext().prec = 28
prec == 28

\* the default context's Emin, and Etiny() = Emin - prec + 1
Emin == -999999

Etiny == Emin - prec + 1

IsZero(x) == x.kind = "F" /\ IsZeroNat(x.int)

\* Decimal(text): the constructor's parser; InvalidOperation (ConversionSyntax)
\* when the text is no decimal literal
ParseNumber(sign, body) ==
    LET number(ip, fp, e, expt, edig) ==
            IF /\ AllDigitChars(ip) /\ AllDigitChars(fp)
               /\ Len(ip) + Len(fp) >= 1
               /\ (e # 0 => Len(edig) >= 1 /\ AllDigitChars(edig))
            THEN Dec(sign, Strip(TextToDigits(ip \o fp)),
                     (IF e = 0 THEN 0
                      ELSE IF expt[1] = "-" THEN -DigitsToInt(TextToDigits(edig))
                      ELSE DigitsToInt(TextToDigits(edig))) - Len(fp))
            ELSE InvalidOperation
        pointed(mant, dot, e, expt) ==
            number(IF dot = 0 THEN mant ELSE SubSeq(mant, 1, dot - 1),
                   IF dot = 0 THEN <<>> ELSE SubSeq(mant, dot + 1, Len(mant)),
                   e, expt,
                   IF Len(expt) > 0 /\ expt[1] \in {"-", "+"}
                   THEN Tail(expt) ELSE expt)
        split(mant, e, expt) == pointed(mant, FirstIndex(mant, "."), e, expt)
        exponent(e) ==
            split(IF e = 0 THEN body ELSE SubSeq(body, 1, e - 1), e,
                  IF e = 0 THEN <<>> ELSE SubSeq(body, e + 1, Len(body)))
    IN  exponent(FirstIndex(UpperText(body), "E"))

DecimalFromText(text) ==
    LET literal(sign, body, up) ==
            IF up = <<"N", "A", "N">> THEN DecNaN(sign)
            ELSE IF up = <<"I", "N", "F">>
                    \/ up = <<"I", "N", "F", "I", "N", "I", "T", "Y">>
            THEN DecInf(sign)
            ELSE ParseNumber(sign, body)
        signed(sign, body) == literal(sign, body, UpperText(body))
        stripped(s) ==
            signed(IF Len(s) > 0 /\ s[1] = "-" THEN 1 ELSE 0,
                   IF Len(s) > 0 /\ s[1] \in {"-", "+"} THEN Tail(s) ELSE s)
    IN  stripped(StripText(text))

\* str(Decimal): Decimal.__str__, scientific notation when the exponent is
\* positive or there are more than six zeros after the point
DecimalToText(x) ==
    LET sgn == IF x.sign = 1 THEN <<"-">> ELSE <<>>
        n   == Len(x.int)
        exppart(e) ==
            IF e = 0 THEN <<>>
            ELSE <<"E">> \o (IF e < 0 THEN <<"-">> ELSE <<"+">>)
                 \o DigitsToText(NatToDigits(IF e < 0 THEN -e ELSE e))
        number(digs, leftdigits, dotplace) ==
            (IF dotplace <= 0 THEN <<"0">>
             ELSE IF dotplace >= n THEN digs \o Rep("0", dotplace - n)
             ELSE SubSeq(digs, 1, dotplace))
            \o (IF dotplace <= 0 THEN <<".">> \o Rep("0", -dotplace) \o digs
                ELSE IF dotplace >= n THEN <<>>
                ELSE <<".">> \o SubSeq(digs, dotplace + 1, n))
            \o exppart(leftdigits - dotplace)
        placed(leftdigits) ==
            number(DigitsToText(x.int), leftdigits,
                   IF x.exp <= 0 /\ leftdigits > -6 THEN leftdigits ELSE 1)
    IN  CASE x.kind = "I" -> sgn \o <<"I", "n", "f", "i", "n", "i", "t", "y">>
          [] x.kind = "N" -> sgn \o <<"N", "a", "N">>
          [] OTHER        -> sgn \o placed(x.exp + n)

\* the coefficients of two finite decimals at their common (smaller) exponent
Aligned(x, y) ==
    LET e == Min2(x.exp, y.exp)
    IN  << Shift(x.int, x.exp - e), Shift(y.int, y.exp - e), e >>

\* Decimal._cmp for two values that are not NaN: -1, 0 or 1
DecCmp(x, y) ==
    LET sx == IF x.sign = 1 THEN -1 ELSE 1
        sy == IF y.sign = 1 THEN -1 ELSE 1
        magnitudes(a) == IF sx = 1 THEN NatCmp(a[1], a[2])
                         ELSE -NatCmp(a[1], a[2])
    IN  IF x.kind = "I" \/ y.kind = "I"
        THEN (IF x.kind = "I" THEN sx ELSE 0) - (IF y.kind = "I" THEN sy ELSE 0)
        ELSE IF IsZero(x) /\ IsZero(y) THEN 0
        ELSE IF IsZero(x) THEN -sy
        ELSE IF IsZero(y) THEN sx
        ELSE IF sx # sy THEN sx
        ELSE magnitudes(Aligned(x, y))

\* x == y on decimals: a quiet NaN compares unequal to everything
DecEq(x, y) ==
    IF x.kind = "N" \/ y.kind = "N" THEN FALSE ELSE DecCmp(x, y) = 0

(***************************************************************************)
(* Decimal arithmetic under the module's context: prec digits,             *)
(* ROUND_HALF_EVEN (the default rounding, which the module leaves alone)   *)
(***************************************************************************)

\* rounding with ties away from zero (ROUND_HALF_UP) in place of the default
RoundHalfUp(int, n) ==
    LET rest     == SubSeq(int, n + 1, Len(int))
        restzero == \A i \in 1..Len(rest) : rest[i] = 0
    IN  IF Len(rest) > 0 /\ rest[1] >= 5 THEN 1
        ELSE IF restzero THEN 0
        ELSE -1

\* Decimal._round_half_even: how the first n digits of int change when the
\* rest is dropped: 1 round up, 0 exact, -1 round down
RoundHalfEven(int, n) ==
    LET rest      == SubSeq(int, n + 1, Len(int))
        restzero  == \A i \in 1..Len(rest) : rest[i] = 0
        exacthalf == /\ Len(rest) > 0 /\ rest[1] = 5
                     /\ \A i \in 2..Len(rest) : rest[i] = 0
    IN  IF exacthalf /\ (n = 0 \/ int[n] % 2 = 0) THEN -1
        ELSE IF Len(rest) > 0 /\ rest[1] >= 5 THEN 1
        ELSE IF restzero THEN 0
        ELSE -1

\* Decimal._rescale(exp, ROUND_HALF_EVEN) of a finite x
Rescale(x, exp) ==
    LET digits == Len(x.int) + x.exp - exp
        rounded(src, n, kept) ==
            IF RoundHalfEven(src, n) = 1
            THEN Dec(x.sign, NatAdd(kept, <<1>>), exp)
            ELSE Dec(x.sign, kept, exp)
        cut(src, n) == rounded(src, n, Strip(SubSeq(src, 1, n)))
    IN  IF IsZero(x) THEN Dec(x.sign, <<0>>, exp)
        ELSE IF x.exp >= exp THEN Dec(x.sign, Shift(x.int, x.exp - exp), exp)
        ELSE cut(IF digits < 0 THEN <<1>> ELSE x.int,
                 IF digits < 0 THEN 0 ELSE digits)

\* Decimal._fix: the result of an operation rounded to the context precision
Fix(x) ==
    LET expmin == Len(x.int) + x.exp - prec
        fitted(r) ==
            IF Len(r.int) > prec
            THEN Dec(r.sign, SubSeq(r.int, 1, Len(r.int) - 1), expmin + 1)
            ELSE r
    IN  IF x.kind # "F" \/ IsZero(x) \/ Len(x.int) <= prec THEN x
        ELSE fitted(Rescale(x, expmin))

\* Decimal.quantize(Decimal(10) ** exp) of a finite x; InvalidOperation when
\* the result would have more than prec digits
Quantize(x, exp) ==
    LET fitted(r) == IF Len(r.int) > prec THEN InvalidOperation ELSE r
    IN  IF IsZero(x) THEN Dec(x.sign, <<0>>, exp)
        ELSE IF (Len(x.int) + x.exp - 1) - exp + 1 > prec THEN InvalidOperation
        ELSE fitted(Rescale(x, exp))

Negated(x) == [x EXCEPT !.sign = 1 - x.sign]

\* the exact sum of two finite decimals, at the smaller exponent
AddExact(x, y) ==
    LET differ(a, c) ==
            IF c = 0 THEN Dec(0, <<0>>, a[3])
            ELSE IF c > 0 THEN Dec(x.sign, NatSub(a[1], a[2]), a[3])
            ELSE Dec(y.sign, NatSub(a[2], a[1]), a[3])
        sum(a) ==
            IF x.sign = y.sign THEN Dec(x.sign, NatAdd(a[1], a[2]), a[3])
            ELSE differ(a, NatCmp(a[1], a[2]))
    IN  IF IsZero(x) /\ IsZero(y)
        THEN Dec(Min2(x.sign, y.sign), <<0>>, Min2(x.exp, y.exp))
        ELSE sum(Aligned(x, y))

\* Decimal.__add__
DecAdd(x, y) ==
    IF x.kind = "E" \/ y.kind = "E" THEN InvalidOperation
    ELSE IF x.kind = "N" THEN x
    ELSE IF y.kind = "N" THEN y
    ELSE IF x.kind = "I"
         THEN (IF y.kind = "I" /\ x.sign # y.sign THEN InvalidOperation ELSE x)
    ELSE IF y.kind = "I" THEN y
    ELSE Fix(AddExact(x, y))

\* Decimal.__sub__: self + other.copy_negate()
DecSub(x, y) ==
    IF x.kind = "E" \/ y.kind = "E" THEN InvalidOperation
    ELSE IF x.kind = "N" THEN x
    ELSE IF y.kind = "N" THEN y
    ELSE DecAdd(x, Negated(y))

\* the exact product of two finite decimals
MulExact(x, y) ==
    IF IsZero(x) \/ IsZero(y) THEN Dec((x.sign + y.sign) % 2, <<0>>, x.exp + y.exp)
    ELSE Dec((x.sign + y.sign) % 2, NatMul(x.int, y.int), x.exp + y.exp)

\* Decimal.__mul__
DecMul(x, y) ==
    LET sign == (x.sign + y.sign) % 2
    IN  IF x.kind = "E" \/ y.kind = "E" THEN InvalidOperation
        ELSE IF x.kind = "N" THEN x
        ELSE IF y.kind = "N" THEN y
        ELSE IF x.kind = "I"
             THEN (IF IsZero(y) THEN InvalidOperation ELSE DecInf(sign))
        ELSE IF y.kind = "I"
             THEN (IF IsZero(x) THEN InvalidOperation ELSE DecInf(sign))
        ELSE Fix(MulExact(x, y))

\* the quotient's trailing zeros removed while the exponent is below ideal
RECURSIVE DropZeros(_, _, _)
DropZeros(coeff, exp, ideal) ==
    IF exp < ideal /\ Len(coeff) > 1 /\ coeff[Len(coeff)] = 0
    THEN DropZeros(SubSeq(coeff, 1, Len(coeff) - 1), exp + 1, ideal)
    ELSE << coeff, exp >>

\* Decimal.__truediv__ for a divisor that is not zero
DecDiv(x, y) ==
    LET sign  == (x.sign + y.sign) % 2
        shift == Len(y.int) - Len(x.int) + prec + 1
        exp   == x.exp - y.exp - shift
        exact(dz) == Fix(Dec(sign, dz[1], dz[2]))
        quotient(q, r) ==
            IF IsZeroNat(r) THEN exact(DropZeros(q, exp, x.exp - y.exp))
            ELSE IF q[Len(q)] % 5 = 0 THEN Fix(Dec(sign, NatAdd(q, <<1>>), exp))
            ELSE Fix(Dec(sign, q, exp))
        divided(qr) == quotient(qr[1], qr[2])
    IN  IF x.kind = "E" \/ y.kind = "E" THEN InvalidOperation
        ELSE IF x.kind = "N" THEN x
        ELSE IF y.kind = "N" THEN y
        ELSE IF x.kind = "I"
             THEN (IF y.kind = "I" THEN InvalidOperation ELSE DecInf(sign))
        ELSE IF y.kind = "I" THEN Dec(sign, <<0>>, Etiny)
        ELSE IF IsZero(x) THEN Dec(sign, <<0>>, x.exp - y.exp)
        ELSE divided(NatDivMod(IF shift >= 0 THEN Shift(x.int, shift) ELSE x.int,
                               IF shift >= 0 THEN y.int
                               ELSE Shift(y.int, -shift)))

\* Decimal.__neg__: the negative of a zero is the positive zero
DecNeg(x) ==
    IF IsZero(x) THEN Fix([x EXCEPT !.sign = 0]) ELSE Fix(Negated(x))

\* Decimal.__abs__
DecAbs(x) ==
    IF x.sign = 1 THEN DecNeg(x)
    ELSE IF IsZero(x) THEN Fix([x EXCEPT !.sign = 0]) ELSE Fix(x)

(***************************************************************************)
(* Python objects and the outcome of a call                                *)
(***************************************************************************)

\* Currency (suite_trading.domain.monetary.currency): a code and the number
\* of fractional digits
Cur(code, precision) == [code |-> code, precision |-> precision]

NoCurrency == Cur(<<>>, 0)

\* an object: t is its type; a Money has value and currency
Obj(t, value, text, num, currency) ==
    [t |-> t, value |-> value, text |-> text, num |-> num, currency |-> currency]

None == Obj("NoneType", NoDecimal, <<>>, 0, NoCurrency)

NotImplemented == Obj("NotImplementedType", NoDecimal, <<>>, 0, NoCurrency)

VDec(d) == Obj("Decimal", d, <<>>, 0, NoCurrency)

VStr(s) == Obj("str", NoDecimal, s, 0, NoCurrency)

VInt(n) == Obj("int", NoDecimal, <<>>, n, NoCurrency)

VBool(b) == Obj("bool", NoDecimal, <<>>, IF b THEN 1 ELSE 0, NoCurrency)

VCur(c) == Obj("Currency", NoDecimal, <<>>, 0, c)

MoneyObj(value, currency) == Obj("Money", value, <<>>, 0, currency)

\* a call returns an object or raises an exception (why: which raise statement)
Return(obj) == [kind |-> "return", obj |-> obj, exc |-> "", why |-> ""]

Raise(exc, why) == [kind |-> "raise", obj |-> None, exc |-> exc, why |-> why]

Returns(out, t) == out.kind = "return" /\ out.obj.t = t

Raises(out, exc) == out.kind = "raise" /\ out.exc = exc

\* an outcome that left a try block with handlers for the exceptions in excs
\* and a handler body `return NotImplemented`
ExceptReturnNotImplemented(out, excs) ==
    IF out.kind = "raise" /\ out.exc \in excs THEN Return(NotImplemented) ELSE out

\* str(value) for the values a caller passes as numbers
StrOf(v) ==
    CASE v.t = "Decimal" -> DecimalToText(v.value)
      [] v.t = "int"     -> IntToText(v.num)
      [] OTHER           -> v.text

(***************************************************************************)
(* Currency: the collaborator's contract (code, precision, equality by     *)
(* code, lookup by code)                                                   *)
(***************************************************************************)

JPY == Cur(<<"J", "P", "Y">>, 0)

USD == Cur(<<"U", "S", "D">>, 2)

ETH == Cur(<<"E", "T", "H">>, 18)

KnownCurrencies == {JPY, USD, ETH}

\* self.currency != other.currency
CurrencyNe(a, b) == a.code # b.code

\* Currency.from_str(code): the currency of that code, ValueError when unknown
CurrencyFromStr(code) ==
    IF \E c \in KnownCurrencies : c.code = code
    THEN Return(VCur(CHOOSE c \in KnownCurrencies : c.code = code))
    ELSE Raise("ValueError", "unknown currency")

(***************************************************************************)
(* class Money                                                             *)
(***************************************************************************)

MAX_VALUE == Dec(0, Rep(9, 30), -18)

MIN_VALUE == Dec(1, Rep(9, 30), -18)

\* f"0.{'0' * currency.precision}" if currency.precision > 0 else "1"
PrecisionStr(currency) ==
    IF currency.precision > 0
    THEN <<"0", ".">> \o Rep("0", currency.precision)
    ELSE <<"1">>

\* Money.__init__, lines 39-45: the value as a Decimal
ToDecimal(value) ==
    IF value.t = "Decimal" THEN value.value ELSE DecimalFromText(StrOf(value))

\* Money.__init__, lines 53-56: the quantized value is stored; quantize
\* raised when q is no value
Stored(q, currency) ==
    IF q.kind = "E" THEN Raise("InvalidOperation", "quantize")
    ELSE Return(MoneyObj(q, currency))

\* Money.__init__, lines 47-56, for the converted decimal_value
Checked(decimal_value, currency) ==
    IF decimal_value.kind = "E" THEN Raise("InvalidOperation", "conversion")
    ELSE IF decimal_value.kind = "N"
         THEN Raise("InvalidOperation", "comparison")
    ELSE IF DecCmp(decimal_value, MAX_VALUE) > 0
         THEN Raise("ValueError", "exceeds maximum")
    ELSE IF DecCmp(decimal_value, MIN_VALUE) < 0
         THEN Raise("ValueError", "below minimum")
    ELSE Stored(Quantize(decimal_value,
                         DecimalFromText(PrecisionStr(currency)).exp),
                currency)

\* Money(value, currency)
Money(value, currency) ==
    IF currency.t # "Currency" THEN Raise("TypeError", "currency")
    ELSE Checked(ToDecimal(value), currency.currency)

\* Money(value, self.currency) for a Decimal value computed by an operation,
\* which raises when the computation did
MoneyOf(d, currency) ==
    IF d.kind = "E" THEN Raise("InvalidOperation", "arithmetic")
    ELSE Money(VDec(d), VCur(currency))

\* Decimal(str(other))
DecimalOfStr(other) == DecimalFromText(StrOf(other))

\* the outcome of a statement that converts other to the Decimal d first:
\* the conversion's exception when it raised, else out
Converted(d, out) ==
    IF d.kind = "E" THEN Raise("InvalidOperation", "conversion") ELSE out

CurrencyMismatch == Raise("ValueError", "different currencies")

\* Money.__eq__
eq(self, other) ==
    IF other.t # "Money" THEN Return(VBool(FALSE))
    ELSE IF CurrencyNe(self.currency, other.currency) THEN Return(VBool(FALSE))
    ELSE Return(VBool(DecEq(self.value, other.value)))

\* Money.__lt__
lt(self, other) ==
    IF other.t # "Money" THEN Return(NotImplemented)
    ELSE IF CurrencyNe(self.currency, other.currency) THEN CurrencyMismatch
    ELSE Return(VBool(DecCmp(self.value, other.value) < 0))

\* Money.__le__
le(self, other) ==
    IF other.t # "Money" THEN Return(NotImplemented)
    ELSE IF CurrencyNe(self.currency, other.currency) THEN CurrencyMismatch
    ELSE Return(VBool(DecCmp(self.value, other.value) <= 0))

\* Money.__gt__
gt(self, other) ==
    IF other.t # "Money" THEN Return(NotImplemented)
    ELSE IF CurrencyNe(self.currency, other.currency) THEN CurrencyMismatch
    ELSE Return(VBool(DecCmp(self.value, other.value) > 0))

\* Money.__ge__
ge(self, other) ==
    IF other.t # "Money" THEN Return(NotImplemented)
    ELSE IF CurrencyNe(self.currency, other.currency) THEN CurrencyMismatch
    ELSE Return(VBool(DecCmp(self.value, other.value) >= 0))

\* Money.__add__
add(self, other) ==
    LET plus(d) == Converted(d, MoneyOf(DecAdd(self.value, d), self.currency))
    IN  IF other.t = "Money"
        THEN IF CurrencyNe(self.currency, other.currency) THEN CurrencyMismatch
             ELSE MoneyOf(DecAdd(self.value, other.value), self.currency)
        ELSE ExceptReturnNotImplemented(plus(DecimalOfStr(other)),
                                        {"ValueError", "TypeError"})

\* Money.__radd__
radd(self, other) == add(self, other)

\* Money.__sub__
sub(self, other) ==
    LET minus(d) == Converted(d, MoneyOf(DecSub(self.value, d), self.currency))
    IN  IF other.t = "Money"
        THEN IF CurrencyNe(self.currency, other.currency) THEN CurrencyMismatch
             ELSE MoneyOf(DecSub(self.value, other.value), self.currency)
        ELSE ExceptReturnNotImplemented(minus(DecimalOfStr(other)),
                                        {"ValueError", "TypeError"})

\* Money.__rsub__
rsub(self, other) ==
    LET from(d) == Converted(d, MoneyOf(DecSub(d, self.value), self.currency))
    IN  ExceptReturnNotImplemented(from(DecimalOfStr(other)),
                                   {"ValueError", "TypeError"})

\* Money.__mul__
mul(self, other) ==
    LET times(d) == Converted(d, MoneyOf(DecMul(self.value, d), self.currency))
    IN  IF other.t = "Money" THEN Return(NotImplemented)
        ELSE ExceptReturnNotImplemented(times(DecimalOfStr(other)),
                                        {"ValueError", "TypeError"})

\* __rmul__ left without the delegation to __mul__
rmul_unsupported(self, other) == Return(NotImplemented)

\* Money.__rmul__
rmul(self, other) == mul(self, other)

\* __truediv__ with the zero test ahead of the currency test
truediv_zero_first(self, other) ==
    LET by(divisor) ==
            Converted(divisor,
                IF DecEq(divisor, Dec(0, <<0>>, 0))
                THEN Raise("ZeroDivisionError", "Cannot divide Money by zero")
                ELSE MoneyOf(DecDiv(self.value, divisor), self.currency))
    IN  IF other.t = "Money"
        THEN IF DecEq(other.value, Dec(0, <<0>>, 0))
             THEN Raise("ZeroDivisionError", "Cannot divide by zero Money")
             ELSE IF CurrencyNe(self.currency, other.currency)
             THEN CurrencyMismatch
             ELSE Return(VDec(DecDiv(self.value, other.value)))
        ELSE ExceptReturnNotImplemented(by(DecimalOfStr(other)),
                                        {"ValueError", "TypeError"})

\* Money.__truediv__
truediv(self, other) ==
    LET by(divisor) ==
            Converted(divisor,
                IF DecEq(divisor, Dec(0, <<0>>, 0))
                THEN Raise("ZeroDivisionError", "Cannot divide Money by zero")
                ELSE MoneyOf(DecDiv(self.value, divisor), self.currency))
    IN  IF other.t = "Money"
        THEN IF CurrencyNe(self.currency, other.currency) THEN CurrencyMismatch
             ELSE IF DecEq(other.value, Dec(0, <<0>>, 0))
             THEN Raise("ZeroDivisionError", "Cannot divide by zero Money")
             ELSE Return(VDec(DecDiv(self.value, other.value)))
        ELSE ExceptReturnNotImplemented(by(DecimalOfStr(other)),
                                        {"ValueError", "TypeError"})

\* Money.__rtruediv__
rtruediv(self, other) == Return(NotImplemented)

\* Money.__neg__
neg(self) == MoneyOf(DecNeg(self.value), self.currency)

\* Money.__pos__
pos(self) == MoneyOf(self.value, self.currency)

\* Money.__abs__
abs(self) == MoneyOf(DecAbs(self.value), self.currency)

\* Money.__str__
str(self) == Return(VStr(DecimalToText(self.value) \o <<" ">> \o self.currency.code))

\* Money.from_str
from_str(value_str) ==
    LET constructed(value, currency) ==
            IF value.kind = "E" THEN Raise("ValueError", "value part")
            ELSE IF Raises(currency, "ValueError")
                 THEN Raise("ValueError", "currency part")
            ELSE Money(VDec(value), currency.obj)
        split(parts) ==
            IF Len(parts) # 2 THEN Raise("ValueError", "format")
            ELSE constructed(DecimalFromText(parts[1]),
                             CurrencyFromStr(parts[2]))
        stripped(s) ==
            IF Len(s) = 0 THEN Raise("ValueError", "empty")
            ELSE split(SplitText(s))
    IN  stripped(StripText(value_str))

(***************************************************************************)
(* The inputs the operations are applied to                                *)
(***************************************************************************)

\* the number of operations applied in a run
MaxOps == 2

\* the int operands are -MaxScalar..MaxScalar
MaxScalar == 2

\* "999999999999.999999999999999999"
MaxText == Rep("9", 12) \o <<".">> \o Rep("9", 18)

\* 10^12, MAX_VALUE plus one unit of its last digit
AboveMax == Dec(0, <<1>> \o Rep(0, 30), -18)

\* the texts passed as values
ValueTexts ==
    { <<"0">>, Rep("9", 10) \o <<".", "9">>, <<"1", "0">>,
      <<"1", ".", "0", "0", "5">>, <<"1", ".", "0", "1", "5">>,
      <<"-", "0", ".", "0", "0", "1">>,
      <<"1", "0", "0", "0", ".", "5", "0">>, <<"1", "e", "3">>,
      Rep("9", 12) \o <<".", "9", "9", "9">>,
      Rep("9", 12) \o <<".", "9", "9">>,
      MaxText, <<"-">> \o MaxText,
      <<"1">> \o Rep("0", 12), <<"-", "1">> \o Rep("0", 12),
      <<"a", "b", "c">>, <<>>, <<"N", "a", "N">>,
      <<"I", "n", "f", "i", "n", "i", "t", "y">> }

\* the values passed to Money(value, currency): str, Decimal and int
Values ==
    {VStr(t) : t \in ValueTexts}
    \cup {VDec(d) : d \in {MAX_VALUE, MIN_VALUE, AboveMax, Negated(AboveMax),
                           Dec(0, Rep(9, 28), -18), DecNaN(0), DecInf(1)}}
    \cup {VInt(k) : k \in (-MaxScalar)..MaxScalar}

\* the currency arguments: the known currencies and a str that is none
CurrencyArgs == {VCur(c) : c \in KnownCurrencies} \cup {VStr(USD.code)}

\* the plain numbers (and a text that is none) passed to the arithmetic
Scalars ==
    {VInt(k) : k \in (-MaxScalar)..MaxScalar}
    \cup {VDec(d) : d \in {Dec(0, <<5>>, -1), Dec(0, <<0, 0>>, -2),
                           Dec(0, Rep(9, 12), 0), Dec(0, <<3>>, 0),
                           DecNaN(0), DecInf(0)}}
    \cup {VStr(<<"0", ".", "0", "1">>), VStr(<<"a", "b", "c">>)}

\* the Money instances passed as the other operand
OtherTexts ==
    { <<"0">>, <<"2">>, <<"1", "0">>, <<"-", "0", ".", "0", "0", "1">>,
      Rep("9", 12) \o <<".", "9", "9", "9">> }

Others ==
    {o.obj : o \in {c \in {Money(VStr(t), VCur(k)) :
                              t \in OtherTexts, k \in KnownCurrencies} :
                       Returns(c, "Money")}}

\* the texts passed to Money.from_str
ParseTexts ==
    { <<"1", "0", "0", "0", ".", "5", "0", " ", "U", "S", "D">>,
      <<" ", "2", " ", " ", "J", "P", "Y", " ">>,
      <<>>, <<" ", " ">>, <<"U", "S", "D">>,
      <<"1", " ", "U", "S", "D", " ", "x">>,
      <<"a", "b", "c", " ", "U", "S", "D">>,
      <<"N", "a", "N", " ", "U", "S", "D">>,
      <<"I", "n", "f", "i", "n", "i", "t", "y", " ", "J", "P", "Y">>,
      <<"1", " ", "X", "X", "X">>,
      <<"1", ".", "0", "0", "5", " ", "U", "S", "D">>,
      MaxText \o <<" ", "U", "S", "D">>,
      MaxText \o <<" ", "E", "T", "H">>,
      <<"1">> \o Rep("0", 12) \o <<" ", "U", "S", "D">> }

(***************************************************************************)
(* The state machine: a caller makes a call (the operation's action), then *)
(* either goes on with the Money it returned (Adopt) or with the instance  *)
(* it had (Drop)                                                           *)
(***************************************************************************)

VARIABLES
    self,   \* the Money instance at hand, None before the first one
    last,   \* the call just made: its name, receiver, arguments and outcome
    n       \* the number of calls made

vars == <<self, last, n>>

Call(op, receiver, other, arg2, out) ==
    [op |-> op, self |-> receiver, other |-> other, arg2 |-> arg2, out |-> out]

NoCall == Call("", None, None, None, Return(None))

Init ==
    /\ self = None
    /\ last = NoCall
    /\ n = 0

\* no call is pending and the caller may make one more
Idle == last.op = "" /\ n < MaxOps

\* a Money is at hand and the caller may make one more call
Ready == Idle /\ self.t = "Money"

\* the call is made and recorded with its outcome
Step(op, receiver, other, arg2, out) ==
    /\ n' = n + 1
    /\ last' = Call(op, receiver, other, arg2, out)
    /\ UNCHANGED self

\* the first call of a run constructs
New ==
    /\ Idle /\ self = None
    /\ \E value \in Values, currency \in CurrencyArgs :
           Step("__init__", None, value, currency, Money(value, currency))

\* Money.from_str of a text, or of str(self)
FromStr ==
    /\ Idle
    /\ \E text \in ParseTexts \cup
                   (IF self.t = "Money" THEN {str(self).obj.text} ELSE {}) :
           Step("from_str", None, VStr(text), None, from_str(text))

\* the operands of a binary operation of self: a Money, self, or a scalar
Operands == Others \cup {self} \cup Scalars

Eq == Ready /\ \E o \in Operands : Step("__eq__", self, o, None, eq(self, o))

Lt == Ready /\ \E o \in Operands : Step("__lt__", self, o, None, lt(self, o))

Le == Ready /\ \E o \in Operands : Step("__le__", self, o, None, le(self, o))

Gt == Ready /\ \E o \in Operands : Step("__gt__", self, o, None, gt(self, o))

Ge == Ready /\ \E o \in Operands : Step("__ge__", self, o, None, ge(self, o))

Add == Ready /\ \E o \in Operands : Step("__add__", self, o, None, add(self, o))

RAdd == Ready /\ \E o \in Scalars : Step("__radd__", self, o, None, radd(self, o))

Sub == Ready /\ \E o \in Operands : Step("__sub__", self, o, None, sub(self, o))

RSub == Ready /\ \E o \in Scalars : Step("__rsub__", self, o, None, rsub(self, o))

Mul == Ready /\ \E o \in Operands : Step("__mul__", self, o, None, mul(self, o))

RMul == Ready /\ \E o \in Scalars : Step("__rmul__", self, o, None, rmul(self, o))

TrueDiv ==
    Ready /\ \E o \in Operands :
                 Step("__truediv__", self, o, None, truediv(self, o))

RTrueDiv ==
    Ready /\ \E o \in Scalars :
                 Step("__rtruediv__", self, o, None, rtruediv(self, o))

Neg == Ready /\ Step("__neg__", self, None, None, neg(self))

Pos == Ready /\ Step("__pos__", self, None, None, pos(self))

Abs == Ready /\ Step("__abs__", self, None, None, abs(self))

Str == Ready /\ Step("__str__", self, None, None, str(self))

\* the caller goes on with the Money the call returned
Adopt ==
    /\ Returns(last.out, "Money")
    /\ self' = last.out.obj
    /\ last' = NoCall
    /\ UNCHANGED n

\* the caller goes on with the instance it had
Drop ==
    /\ last.op # ""
    /\ last' = NoCall
    /\ UNCHANGED <<self, n>>

Next ==
    \/ New \/ FromStr
    \/ Eq \/ Lt \/ Le \/ Gt \/ Ge
    \/ Add \/ RAdd \/ Sub \/ RSub \/ Mul \/ RMul \/ TrueDiv \/ RTrueDiv
    \/ Neg \/ Pos \/ Abs \/ Str
    \/ Adopt \/ Drop

Spec == Init /\ [][Next]_vars

(***************************************************************************)
(* Properties                                                              *)
(***************************************************************************)

\* the Money instances of a state: the one at hand and the one just returned
Instances == {m \in {self, last.out.obj} : m.t = "Money"}

\* MIN_VALUE <= d <= MAX_VALUE
InRange(d) ==
    d.kind = "F" /\ DecCmp(d, MAX_VALUE) <= 0 /\ DecCmp(d, MIN_VALUE) >= 0

\* a plain number: an int or a finite Decimal
IsNumber(o) == o.t \in {"int", "Decimal"} /\ ToDecimal(o).kind = "F"

\* the amount an operand stands for
Amount(o) == IF o.t = "Money" THEN o.value ELSE ToDecimal(o)

SameCurrency(a, b) ==
    a.t = "Money" /\ b.t = "Money" /\ a.currency.code = b.currency.code

OtherCurrency(a, b) ==
    a.t = "Money" /\ b.t = "Money" /\ a.currency.code # b.currency.code

RangeError(out) ==
    Raises(out, "ValueError") /\ out.why \in {"exceeds maximum", "below minimum"}

\* C1: the amount stored in every Money instance, after quantization, lies
\* in [MIN_VALUE, MAX_VALUE]
C1_StoredAmountInRange == \A m \in Instances : InRange(m.value)

\* the call is an arithmetic operation on operands it is defined for
Arithmetic(c) ==
    CASE c.op \in {"__add__", "__sub__"} ->
             IsNumber(c.other) \/ SameCurrency(c.self, c.other)
      [] c.op \in {"__radd__", "__rsub__", "__mul__", "__rmul__"} ->
             IsNumber(c.other)
      [] c.op = "__truediv__" ->
             IsNumber(c.other) /\ ~IsZero(Amount(c.other))
      [] c.op \in {"__neg__", "__abs__"} -> TRUE
      [] OTHER -> FALSE

\* the exact (unrounded) result of the arithmetic call lies outside
\* [MIN_VALUE, MAX_VALUE]; for a quotient a / d: |a| > MAX_VALUE * |d|
Overflows(c) ==
    LET a == c.self.value
        d == Amount(c.other)
    IN  CASE c.op \in {"__add__", "__radd__"} -> ~InRange(AddExact(a, d))
          [] c.op = "__sub__"  -> ~InRange(AddExact(a, Negated(d)))
          [] c.op = "__rsub__" -> ~InRange(AddExact(d, Negated(a)))
          [] c.op \in {"__mul__", "__rmul__"} -> ~InRange(MulExact(a, d))
          [] c.op = "__truediv__" ->
                 DecCmp([a EXCEPT !.sign = 0],
                        MulExact(MAX_VALUE, [d EXCEPT !.sign = 0])) > 0
          [] OTHER -> ~InRange(a)

\* C2: an arithmetic operation whose mathematical result lies outside
\* [MIN_VALUE, MAX_VALUE] fails with the constructor's out-of-range
\* ValueError; it returns neither a Money nor NotImplemented
C2_OverflowFailsWithRangeError ==
    (Arithmetic(last) /\ Overflows(last)) => RangeError(last.out)

\* C3: Money(value, currency) with a Currency and a numeric value succeeds
\* when MIN_VALUE <= value <= MAX_VALUE, whatever the currency's precision,
\* and fails with the out-of-range ValueError otherwise; the unrounded value
\* is what is tested
C3_AcceptsExactlyTheClosedRange ==
    LET d == ToDecimal(last.other)
    IN  (last.op = "__init__" /\ last.arg2.t = "Currency"
                              /\ d.kind \in {"F", "I"}) =>
            IF InRange(d) THEN Returns(last.out, "Money")
            ELSE /\ Raises(last.out, "ValueError")
                 /\ last.out.why = IF DecCmp(d, MAX_VALUE) > 0
                                   THEN "exceeds maximum" ELSE "below minimum"

\* C4: Money(value, currency) fails with TypeError when currency is no
\* Currency, whatever the value; with a Currency and a value that is no exact
\* decimal (no decimal literal, or NaN) it fails with ValueError and with
\* nothing else
C4_UnparsableValueIsValueError ==
    LET d == ToDecimal(last.other)
    IN  last.op = "__init__" =>
            /\ last.arg2.t # "Currency" => Raises(last.out, "TypeError")
            /\ (last.arg2.t = "Currency" /\ d.kind \in {"E", "N"}) =>
                   Raises(last.out, "ValueError")

\* r has p fractional digits and is v rounded to them with ties to even:
\* |v - r| is at most half a unit of the last digit, and when it is exactly
\* half, the last digit of r is even
RoundedHalfEven(v, r, p) ==
    LET e == Min2(v.exp, -p - 1)
        V == Shift(v.int, v.exp - e)
        R == Shift(r.int, -p - e)
        H == Shift(<<5>>, -p - 1 - e)
        D == IF NatCmp(V, R) >= 0 THEN NatSub(V, R) ELSE NatSub(R, V)
        c == NatCmp(D, H)
    IN  /\ r.kind = "F" /\ r.exp = -p /\ r.sign = v.sign
        /\ c <= 0
        /\ c = 0 => r.int[Len(r.int)] % 2 = 0

\* Money(text, USD) was called
InitOfUSD(text) ==
    last.op = "__init__" /\ last.other = VStr(text) /\ last.arg2 = VCur(USD)

\* C5: every stored amount has exactly currency.precision fractional digits,
\* and the amount Money(value, currency) stores is value rounded to them with
\* ties to even: 1.005 at precision 2 gives 1.00 and 1.015 gives 1.02
C5_StoredAmountIsRoundedHalfEven ==
    /\ \A m \in Instances :
           m.value.kind = "F" /\ m.value.exp = -m.currency.precision
    /\ (last.op = "__init__" /\ Returns(last.out, "Money")) =>
           /\ last.out.obj.currency = last.arg2.currency
           /\ RoundedHalfEven(ToDecimal(last.other), last.out.obj.value,
                              last.arg2.currency.precision)
    /\ InitOfUSD(<<"1", ".", "0", "0", "5">>) =>
           last.out = Return(MoneyObj(Dec(0, <<1, 0, 0>>, -2), USD))
    /\ InitOfUSD(<<"1", ".", "0", "1", "5">>) =>
           last.out = Return(MoneyObj(Dec(0, <<1, 0, 2>>, -2), USD))

\* a value halfway between two amounts of the precision was accepted
C5_TieWasRounded ==
    InitOfUSD(<<"1", ".", "0", "0", "5">>) /\ Returns(last.out, "Money")

\* C6: between two Money of different currencies +, -, / and <, <=, >, >=
\* raise the currency-mismatch ValueError, whatever the amounts (a zero
\* divisor too), and == returns False; == with anything that is not a Money
\* returns False
C6_CurrencyMismatch ==
    /\ (OtherCurrency(last.self, last.other)
           /\ last.op \in {"__add__", "__sub__", "__truediv__",
                           "__lt__", "__le__", "__gt__", "__ge__"}) =>
           last.out = CurrencyMismatch
    /\ (OtherCurrency(last.self, last.other) /\ last.op = "__eq__") =>
           last.out = Return(VBool(FALSE))
    /\ (last.op = "__eq__" /\ last.other.t # "Money") =>
           last.out = Return(VBool(FALSE))

\* a Money was divided by a zero Money of another currency
C6_DividedByZeroOfOtherCurrency ==
    /\ last.op = "__truediv__"
    /\ OtherCurrency(last.self, last.other)
    /\ IsZero(last.other.value)

\* r is the ratio a / b to within one unit of r's last digit
IsRatio(r, a, b) ==
    LET err == AddExact(MulExact(r, b), Negated(a))
    IN  /\ r.kind = "F"
        /\ DecCmp([err EXCEPT !.sign = 0], Dec(0, b.int, b.exp + r.exp)) <= 0

\* the parts of the division contract that concern a zero divisor, a Money
\* divisor and the reflected form
DivisionByMoneyOrZero ==
    /\ (last.op = "__truediv__"
           /\ \/ SameCurrency(last.self, last.other)
              \/ IsNumber(last.other)
           /\ IsZero(Amount(last.other))) =>
           Raises(last.out, "ZeroDivisionError")
    /\ (last.op = "__truediv__" /\ SameCurrency(last.self, last.other)
           /\ ~IsZero(last.other.value)) =>
           /\ Returns(last.out, "Decimal")
           /\ IsRatio(last.out.obj.value, last.self.value, last.other.value)
    /\ (last.op = "__truediv__"
           /\ last.self.value = Dec(0, <<1, 0, 0, 0>>, -2)
           /\ last.other.t = "Money"
           /\ last.other.value = Dec(0, <<2, 0, 0>>, -2)) =>
           last.out = Return(VDec(Dec(0, <<5>>, 0)))
    /\ last.op = "__rtruediv__" => last.out = Return(NotImplemented)

\* a Money was divided by a plain number that is not zero
DividedByNumber ==
    last.op = "__truediv__" /\ IsNumber(last.other)
                            /\ ~IsZero(Amount(last.other))

\* C7: division by a zero Money of the same currency or by a zero number
\* raises ZeroDivisionError, Money / Money of one currency is the Decimal
\* ratio (10 USD / 2 USD = 5), number / Money is NotImplemented, and Money /
\* non-zero number is a Money in the dividend's currency
C7_DivisionContract ==
    /\ DivisionByMoneyOrZero
    /\ DividedByNumber =>
           /\ Returns(last.out, "Money")
           /\ last.out.obj.currency = last.self.currency

\* C8: Money.from_str(str(m)) returns a Money equal to m
C8_RoundTrip ==
    (last.op = "from_str" /\ self.t = "Money" /\ last.other = str(self).obj) =>
        /\ Returns(last.out, "Money")
        /\ eq(last.out.obj, self) = Return(VBool(TRUE))
        /\ last.out.obj.currency = self.currency

\* two calls have the same outcome: the same object or equal Money returned,
\* or the same exception raised
SameOutcome(x, y) ==
    \/ x = y
    \/ /\ Returns(x, "Money") /\ Returns(y, "Money")
       /\ eq(x.obj, y.obj) = Return(VBool(TRUE))
    \/ x.kind = "raise" /\ y.kind = "raise" /\ x.exc = y.exc

\* C9: a + b and b + a have the same outcome for Money a, b of one currency;
\* a * k and k * a have the same outcome for a Money a and a plain number k,
\* and so have a + k and k + a
C9_Commutativity ==
    /\ (last.op = "__add__" /\ SameCurrency(last.self, last.other)) =>
           SameOutcome(last.out, add(last.other, last.self))
    /\ (last.op = "__mul__" /\ IsNumber(last.other)) =>
           SameOutcome(last.out, rmul(last.self, last.other))
    /\ (last.op = "__rmul__" /\ IsNumber(last.other)) =>
           SameOutcome(last.out, mul(last.self, last.other))
    /\ (last.op = "__add__" /\ IsNumber(last.other)) =>
           SameOutcome(last.out, radd(last.self, last.other))
    /\ (last.op = "__radd__" /\ IsNumber(last.other)) =>
           SameOutcome(last.out, add(last.self, last.other))

\* k * a was computed for a plain number k and gave a Money
C9_NumberTimesMoney ==
    last.op = "__rmul__" /\ IsNumber(last.other) /\ Returns(last.out, "Money")

\* C10: Money.from_str fails with ValueError, and with nothing else, when
\* the stripped text is empty, has not exactly two whitespace-separated
\* tokens, has a first token that is no finite decimal literal (NaN
\* included), or has a second token that is no known currency code;
\* otherwise its outcome is that of Money(value, currency) for the two tokens
C10_ParseFailuresAreValueErrors ==
    LET stripped == StripText(last.other.text)
        parts    == SplitText(stripped)
        value    == DecimalFromText(parts[1])
        known    == \E c \in KnownCurrencies : c.code = parts[2]
        currency == CHOOSE c \in KnownCurrencies : c.code = parts[2]
    IN  last.op = "from_str" =>
            IF \/ Len(stripped) = 0
               \/ Len(parts) # 2
               \/ value.kind # "F"
               \/ ~known
            THEN Raises(last.out, "ValueError")
            ELSE last.out = Money(VDec(value), VCur(currency))

====
